---- MODULE Spec2Model ----
(***************************************************************************)
(* Queue-metrics reconstruction engine of grigri (src/grigri/queues.py).   *)
(*                                                                         *)
(* Time is counted in ticks, TicksPerDay ticks to a calendar day, so that  *)
(* a timestamp carries a time of day and normalising it to midnight is a   *)
(* real conversion.  Day 0 is Saturday 2018-12-29: day 1 is a Sunday (the  *)
(* end of a pandas 'W' period), day 2 is Monday 2018-12-31 (the end of an  *)
(* 'M' and of an 'A' period) and day 3 is Tuesday 2019-01-01.              *)
(*                                                                         *)
(* A pandas Series is a sequence of records [t |-> timestamp, v |-> value] *)
(* in index order; NaN stands for a missing value.                         *)
(***************************************************************************)
EXTENDS Integers, Sequences, FiniteSets, TLC

VARIABLES op, events, inflows, outflows, flow, freq, now, backlog_start,
          date_start, time_index, grid_start, grid_end, dt, date2, periods,
          inclusive, frame, split_date, sql, params, table, clear_table,
          cursor, conn, pre, out

vars == <<op, events, inflows, outflows, flow, freq, now, backlog_start,
          date_start, time_index, grid_start, grid_end, dt, date2, periods,
          inclusive, frame, split_date, sql, params, table, clear_table,
          cursor, conn, pre, out>>

\* the arguments of a call, which no operation changes
args == <<events, inflows, outflows, flow, freq, now, backlog_start, date_start,
          time_index, grid_start, grid_end, dt, date2, periods, inclusive,
          frame, split_date, sql, params, table, clear_table>>

\* the database cursor and connection, which read_frame and write_frame use
db == <<cursor, conn>>

\* ---- bounds of the model ----
MaxDay == 3
MaxPts == 3
MaxVal == 1
MaxBacklog == 1
TicksPerDay == 2
MaxEvents == 2
MaxWeight == 1

\* the longest daily grid built
MaxGridLen == 40

\* the largest number of periods swung or added
MaxPeriods == 2

\* the widest and the longest result set of a cursor
MaxCols == 2
MaxRows == 1

\* ---- missing values ----
NaN == -999
NaT == -998

\* Python's None as a parameter of an INSERT
PyNone == -997

Freqs == {"d", "w", "m", "a"}

\* ---- calendar (pandas offsets D, W-SUN, M, A-DEC) ----
Weekday(day) == (day + 5) % 7

WeekEnd(day) == day + (6 - Weekday(day))

\* civil calendar (proleptic Gregorian), day 0 being 2018-12-29
IsLeap(y) == (y % 4 = 0 /\ y % 100 # 0) \/ y % 400 = 0

DaysInMonth(y, m) == IF m = 2 THEN (IF IsLeap(y) THEN 29 ELSE 28)
                     ELSE IF m \in {4, 6, 9, 11} THEN 30 ELSE 31

\* the day number of the civil date y-m-d
DayNumber(y, m, d) ==
    LET yy  == IF m <= 2 THEN y - 1 ELSE y
        era == yy \div 400
        yoe == yy - era * 400
        mp  == IF m > 2 THEN m - 3 ELSE m + 9
        doy == (153 * mp + 2) \div 5 + d - 1
        doe == yoe * 365 + yoe \div 4 - yoe \div 100 + doy
    IN era * 146097 + doe - 719468 - 17894

\* the civil date [y, m, d] of a day number
Civil(day) ==
    LET z   == day + 17894 + 719468
        era == z \div 146097
        doe == z - era * 146097
        yoe == (doe - doe \div 1460 + doe \div 36524 - doe \div 146096) \div 365
        doy == doe - (365 * yoe + yoe \div 4 - yoe \div 100)
        mp  == (5 * doy + 2) \div 153
        d   == doy - (153 * mp + 2) \div 5 + 1
        m   == IF mp < 10 THEN mp + 3 ELSE mp - 9
    IN [y |-> yoe + era * 400 + (IF m <= 2 THEN 1 ELSE 0), m |-> m, d |-> d]

\* the last day of the civil month, and of the civil year, that holds the day
MonthEnd(day) == LET c == Civil(day) IN DayNumber(c.y, c.m, DaysInMonth(c.y, c.m))

YearEnd(day) == DayNumber(Civil(day).y, 12, 31)

PeriodEnd(day, f) == CASE f = "d" -> day
                       [] f = "w" -> WeekEnd(day)
                       [] f = "m" -> MonthEnd(day)
                       [] f = "a" -> YearEnd(day)

DayOf(ts) == ts \div TicksPerDay

Midnight(day) == day * TicksPerDay

normalize(ts) == Midnight(DayOf(ts))

\* the period label pandas gives a timestamp when resampling at frequency f
Label(ts, f) == Midnight(PeriodEnd(DayOf(ts), f))

\* ---- generic helpers ----
\* a local assignment: the value of F at x, with x computed once
Let(x, F(_)) == CHOOSE r \in {F(v) : v \in {x}} : TRUE

Min(S) == CHOOSE x \in S : \A y \in S : x <= y

Max(S) == CHOOSE x \in S : \A y \in S : y <= x

RECURSIVE SetToSeq(_)
SetToSeq(S) == IF S = {} THEN <<>>
               ELSE <<Min(S)>> \o SetToSeq(S \ {Min(S)})

Range(s) == {s[i] : i \in 1..Len(s)}

Reverse(s) == [i \in 1..Len(s) |-> s[Len(s) + 1 - i]]

Index(s) == [i \in 1..Len(s) |-> s[i].t]

IndexSet(s) == {s[i].t : i \in 1..Len(s)}

ValueAt(s, t) == LET i == CHOOSE j \in 1..Len(s) : s[j].t = t IN s[i].v

Lookup(s, t, dflt) == IF t \in IndexSet(s) THEN ValueAt(s, t) ELSE dflt

RECURSIVE SumNonNaN(_)
SumNonNaN(vals) == IF vals = <<>> THEN 0
                   ELSE (IF Head(vals) = NaN THEN 0 ELSE Head(vals))
                        + SumNonNaN(Tail(vals))

NonNaN(vals) == SelectSeq(vals, LAMBDA x : x # NaN)

Values(s) == [i \in 1..Len(s) |-> s[i].v]

\* ---- pandas operations used by queues.py ----

\* pd.date_range(start, end, normalize=True, freq=f): the period ends of f
\* between the two normalised dates, ascending
date_range(start, end, f) ==
    SetToSeq({t \in normalize(start)..normalize(end) :
                 t = normalize(t) /\ PeriodEnd(DayOf(t), f) = DayOf(t)})

\* ascending and monotonic in the sense of pandas' Index.is_monotonic
IsMonotonic(s) == \A i \in 1..(Len(s) - 1) : s[i].t <= s[i + 1].t

RECURSIVE SortRows(_)
SortRows(s) ==
    IF s = <<>> THEN <<>>
    ELSE LET k == Min({i \in 1..Len(s) : \A j \in 1..Len(s) : s[i].t <= s[j].t})
         IN <<s[k]>> \o SortRows(SubSeq(s, 1, k - 1) \o SubSeq(s, k + 1, Len(s)))

sort_index(s, ascending) == IF ascending THEN SortRows(s) ELSE Reverse(SortRows(s))

fillna(s, x) ==
    [i \in 1..Len(s) |-> [t |-> s[i].t, v |-> IF s[i].v = NaN THEN x ELSE s[i].v]]

\* Series.cumsum(): running sum in index order, a missing value stays missing
\* and is skipped by the running sum
cumsum(s) ==
    [i \in 1..Len(s) |->
        [t |-> s[i].t,
         v |-> IF s[i].v = NaN THEN NaN
               ELSE SumNonNaN(SubSeq(Values(s), 1, i))]]

\* Series[:stamp] on a sorted DatetimeIndex: the rows up to and including stamp
SliceTo(s, stamp) == SelectSeq(s, LAMBDA r : r.t <= stamp)

\* s[stamp:] on a sorted DatetimeIndex: a label slice, the bound included
SliceFrom(s, stamp) == SelectSeq(s, LAMBDA r : r.t >= stamp)

SliceBetween(s, lo, hi) == SelectSeq(s, LAMBDA r : lo <= r.t /\ r.t <= hi)

\* scalar - Series
rsub(x, s) ==
    [i \in 1..Len(s) |-> [t |-> s[i].t, v |-> IF s[i].v = NaN THEN NaN ELSE x - s[i].v]]

\* index of the outer join of two Series in an arithmetic operation
\* (Series.align -> Index.join(how='outer') -> Index.union)
JoinIndex(a, b) ==
    IF Index(a) = Index(b) THEN Index(a)
    ELSE IF Len(b) = 0 THEN Index(a)
    ELSE IF Len(a) = 0 THEN Index(b)
    ELSE SetToSeq(IndexSet(a) \cup IndexSet(b))

\* Series + Series: aligned on the joined index, missing on either side gives NaN
add(a, b) ==
    LET idx == JoinIndex(a, b)
    IN [i \in 1..Len(idx) |->
          LET x == Lookup(a, idx[i], NaN)
              y == Lookup(b, idx[i], NaN)
          IN [t |-> idx[i], v |-> IF x = NaN \/ y = NaN THEN NaN ELSE x + y]]

\* Series.sub(other, fill_value=0): a value missing on one side only counts as 0
sub_fill0(a, b) ==
    LET idx == JoinIndex(a, b)
    IN [i \in 1..Len(idx) |->
          LET x == Lookup(a, idx[i], NaN)
              y == Lookup(b, idx[i], NaN)
          IN [t |-> idx[i],
              v |-> IF x = NaN /\ y = NaN THEN NaN
                    ELSE (IF x = NaN THEN 0 ELSE x) - (IF y = NaN THEN 0 ELSE y)]]

\* Series.fillna(method='ffill'): a missing value takes the last value before
\* it in index order, and stays missing when there is none
ffill(s) ==
    [i \in 1..Len(s) |->
        LET seen == {j \in 1..i : s[j].v # NaN}
        IN [t |-> s[i].t, v |-> IF seen = {} THEN NaN ELSE s[Max(seen)].v]]

\* Series.reindex(index, fill_value=fill): fill only where the label is absent
reindex(s, idx, fill) ==
    [i \in 1..Len(idx) |-> [t |-> idx[i], v |-> Lookup(s, idx[i], fill)]]

\* Series.shift(1)
shift1(s) ==
    [i \in 1..Len(s) |-> [t |-> s[i].t, v |-> IF i = 1 THEN NaN ELSE s[i - 1].v]]

\* the reducers of resample(how=...)
Reduce(how, vals) ==
    CASE how = "first" -> IF NonNaN(vals) = <<>> THEN NaN ELSE Head(NonNaN(vals))
      [] how = "sum"   -> IF NonNaN(vals) = <<>> THEN NaN ELSE SumNonNaN(vals)
      [] how = "count" -> Len(NonNaN(vals))

\* Series.resample(f, how=how): one row per period of f from the period of the
\* first row to the period of the last row, labelled by the period's end
resample(s, f, how) ==
    IF Len(s) = 0 THEN <<>>
    ELSE LET srt    == IF IsMonotonic(s) THEN s ELSE SortRows(s)
             days   == DayOf(srt[1].t)..DayOf(srt[Len(srt)].t)
             labels == SetToSeq({Midnight(PeriodEnd(d, f)) : d \in days})
         IN [i \in 1..Len(labels) |->
               [t |-> labels[i],
                v |-> Reduce(how, Values(SelectSeq(srt,
                                 LAMBDA r : Label(r.t, f) = labels[i])))]]

clamp_below_minus_one(s) ==
    [i \in 1..Len(s) |->
        [t |-> s[i].t, v |-> IF s[i].v # NaN /\ s[i].v < -1 THEN 0 ELSE s[i].v]]

\* backlog[backlog < 0] = 0
clamp(s) ==
    [i \in 1..Len(s) |->
        [t |-> s[i].t, v |-> IF s[i].v # NaN /\ s[i].v < 0 THEN 0 ELSE s[i].v]]

\* ---- queues.py ----

\* reverse_backlog with the running sums taken in ascending date order
reverse_backlog_pre_no_flip(inf, outf, B, D) ==
    LET i2 == SliceTo(inf, D)
        o2 == SliceTo(outf, D)
        cum_inflow  == cumsum(fillna(sort_index(i2, TRUE), 0))
        cum_outflow == cumsum(fillna(sort_index(o2, TRUE), 0))
        backlog0    == add(rsub(B, cum_inflow), cum_outflow)
    IN sort_index(ffill(backlog0), TRUE)

\* reverse_backlog without the truncation of the flows at date_start
reverse_backlog_pre_no_truncation(inf, outf, B, D) ==
    LET cum_inflow  == cumsum(fillna(sort_index(inf, FALSE), 0))
        cum_outflow == cumsum(fillna(sort_index(outf, FALSE), 0))
        backlog0    == add(rsub(B, cum_inflow), cum_outflow)
    IN sort_index(ffill(backlog0), TRUE)

\* reverse_backlog up to the ascending sort, before resampling and clamping
reverse_backlog_pre(inf, outf, B, D) ==
    LET i2 == SliceTo(inf, D)
        o2 == SliceTo(outf, D)
        cum_inflow  == cumsum(fillna(sort_index(i2, FALSE), 0))
        cum_outflow == cumsum(fillna(sort_index(o2, FALSE), 0))
        backlog0    == add(rsub(B, cum_inflow), cum_outflow)
    IN sort_index(ffill(backlog0), TRUE)

reverse_backlog(inf, outf, B, D, f) ==
    clamp(resample(reverse_backlog_pre(inf, outf, B, D), f, "first"))

\* is_null(a, b): the first argument that is not missing, else the last one
is_null(a, b) == IF a # NaT THEN a ELSE b

\* an event table is a sequence of rows [ts |-> timestamp or NaT, w |-> weight or NaN]
Stamped(df) == SelectSeq(df, LAMBDA r : r.ts # NaT)

ColMin(df) == IF Stamped(df) = <<>> THEN NaT
              ELSE Min({Stamped(df)[i].ts : i \in 1..Len(Stamped(df))})

ColMax(df) == IF Stamped(df) = <<>> THEN NaT
              ELSE Max({Stamped(df)[i].ts : i \in 1..Len(Stamped(df))})

\* the Series flow_extract resamples: weights indexed by timestamp over the rows
\* with both fields, or the timestamps themselves over the rows that have one
FlowRows(df, weighted) ==
    IF weighted
    THEN LET both == SelectSeq(df, LAMBDA r : r.ts # NaT /\ r.w # NaN)
         IN [i \in 1..Len(both) |-> [t |-> both[i].ts, v |-> both[i].w]]
    ELSE [i \in 1..Len(Stamped(df)) |->
             [t |-> Stamped(df)[i].ts, v |-> Stamped(df)[i].ts]]

flow_extract_no_reindex(df, weighted, f, nw) ==
    resample(FlowRows(df, weighted), f, IF weighted THEN "sum" ELSE "count")

flow_extract_no_fillna(df, weighted, f, nw) ==
    LET start_date == is_null(ColMin(df), nw)
        end_date   == is_null(ColMax(df), nw)
        original_date_range == date_range(start_date, end_date, f)
        fl == resample(FlowRows(df, weighted), f, IF weighted THEN "sum" ELSE "count")
    IN reindex(fl, original_date_range, NaN)

flow_extract(df, weighted, f, nw) ==
    LET start_date == is_null(ColMin(df), nw)
        end_date   == is_null(ColMax(df), nw)
        original_date_range == date_range(start_date, end_date, f)
        fl == resample(FlowRows(df, weighted), f, IF weighted THEN "sum" ELSE "count")
    IN fillna(reindex(fl, original_date_range, NaN), 0)

\* queues(inflow, outflow, current_backlog, time_index, ..., freq) on two event
\* tables; ti is NoIndex or Given(index); both clocks read nw
queues(inflow, outflow, current_backlog, ti, weighted, f, nw) ==
    Let(flow_extract(inflow, weighted, f, nw), LAMBDA inflow1 :
    Let(flow_extract(outflow, weighted, f, nw), LAMBDA outflow1 :
    Let(IF ti.given THEN ti.index
        ELSE date_range(Min({inflow1[1].t, outflow1[1].t}),
                        Max({inflow1[Len(inflow1)].t, outflow1[Len(outflow1)].t}), f),
        LAMBDA index :
    Let(reindex(inflow1, index, 0), LAMBDA inflow2 :
    Let(reindex(outflow1, index, 0), LAMBDA outflow2 :
        [inflow  |-> inflow2,
         outflow |-> outflow2,
         backlog |-> reverse_backlog(inflow2, outflow2, current_backlog, nw, f)])))))

_cumsum_to_last_date(fl, nw) == cumsum(fl)

_cumsum_no_running_sum(fl, nw) ==
    reindex(fl, date_range(Min(IndexSet(fl)), nw, "d"), 0)

\* _cumsum on a non-empty flow; datetime.now() is the parameter nw
_cumsum(fl, nw) ==
    LET range_start == Min(IndexSet(fl))
        full_range == date_range(range_start, nw, "d")
    IN cumsum(reindex(fl, full_range, 0))

backlog(inf, outf, f, nw) ==
    LET L == sub_fill0(_cumsum(inf, nw), _cumsum(outf, nw))
        begin_date == Min(IndexSet(L))
        range_end  == Max(IndexSet(L))
    IN SliceBetween(resample(L, f, "first"), begin_date, range_end)

throughput_no_fill_value(outf, f, nw) ==
    LET c == _cumsum(outf, nw)
        result == add(c, rsub(0, shift1(c)))
    IN fillna(resample(result, f, "sum"), 0)

throughput(outf, f, nw) ==
    LET c == _cumsum(outf, nw)
        result == sub_fill0(c, shift1(c))
    IN fillna(resample(result, f, "sum"), 0)

arrivals(inf, f, nw) ==
    LET c == _cumsum(inf, nw)
        result == sub_fill0(c, shift1(c))
    IN fillna(resample(result, f, "sum"), 0)

\* resample(f, how='mean'): rows [t, n, d], the mean being n / d; d = 0 is a
\* missing value (no non-missing value in the period)
resample_mean(s, f) ==
    IF Len(s) = 0 THEN <<>>
    ELSE LET days   == DayOf(s[1].t)..DayOf(s[Len(s)].t)
             labels == SetToSeq({Midnight(PeriodEnd(d, f)) : d \in days})
         IN [i \in 1..Len(labels) |->
               LET vals == NonNaN(Values(SelectSeq(s,
                                 LAMBDA r : Label(r.t, f) = labels[i])))
               IN [t |-> labels[i], n |-> SumNonNaN(vals), d |-> Len(vals)]]

Sign(x) == IF x > 0 THEN 1 ELSE IF x < 0 THEN -1 ELSE 0

\* float division of the mean a.n / a.d by the mean b.n / b.d: a row
\* [kind, n, d] with kind "num" (the ratio n / d, d > 0), "inf", "-inf" or "nan"
FloatDiv(a, b) ==
    IF a.d = 0 \/ b.d = 0 THEN [kind |-> "nan", n |-> 0, d |-> 0]
    ELSE IF b.n = 0
         THEN [kind |-> CASE a.n > 0 -> "inf" [] a.n < 0 -> "-inf" [] OTHER -> "nan",
               n |-> 0, d |-> 0]
    ELSE [kind |-> "num", n |-> Sign(b.n) * a.n * b.d, d |-> Sign(b.n) * a.d * b.n]

\* Series / Series aligned on the union of the two ascending indexes
div(a, b) ==
    LET idx == SetToSeq(IndexSet(a) \cup IndexSet(b))
        Row(s, t) == IF t \in IndexSet(s)
                     THEN s[CHOOSE j \in 1..Len(s) : s[j].t = t]
                     ELSE [t |-> t, n |-> 0, d |-> 0]
    IN [i \in 1..Len(idx) |-> [t |-> idx[i], v |-> FloatDiv(Row(a, idx[i]), Row(b, idx[i]))]]

\* Series.dropna() on a Series of ratios: only NaN is dropped
dropna(s) == SelectSeq(s, LAMBDA r : r.v.kind # "nan")

wait_inverted(inf, outf, f, nw) ==
    LET L == backlog(inf, outf, f, nw)
        k == arrivals(inf, f, nw)
    IN dropna(div(resample_mean(k, f), resample_mean(L, f)))

wait(inf, outf, f, nw) ==
    LET L == backlog(inf, outf, f, nw)
        k == arrivals(inf, f, nw)
    IN dropna(div(resample_mean(L, f), resample_mean(k, f)))

\* ---- inputs ----
\* the days flow series are dated on, from the Sunday to the last modelled day
Days == 1..MaxDay

Stamps == 0..(Midnight(MaxDay) + TicksPerDay - 1)

MkSeries(S, f) ==
    LET idx == SetToSeq(S) IN [i \in 1..Len(idx) |-> [t |-> idx[i], v |-> f[idx[i]]]]

\* the ascending Series with exactly n rows, indexed by midnights, values in vals
SeriesOfLen(n, vals) ==
    UNION { {MkSeries(S, f) : f \in [S -> vals]} :
            S \in {X \in SUBSET {Midnight(d) : d \in Days} : Cardinality(X) = n} }

None == <<>>

\* time_index=None, and a time_index supplied by the caller
NoIndex == [given |-> FALSE, index |-> <<>>]

Given(idx) == [given |-> TRUE, index |-> idx]

\* params=None, a single parameter and a list of parameters
NoParams == [kind |-> "none", values |-> <<>>]

\* a single parameter: a string, or a number
Scalar(x) == [kind |-> "scalar", values |-> <<x>>]

Number(n) == [kind |-> "number", values |-> <<n>>]

List(xs) == [kind |-> "list", values |-> xs]

\* no cursor has been opened
NoCursor == [description |-> <<>>, rows |-> <<>>, executed |-> <<>>, closed |-> FALSE]

\* the arguments of split_tseries, read_frame and write_frame, unused elsewhere
NoIO == /\ frame = <<>> /\ split_date = 0
        /\ sql = "" /\ params = NoParams
        /\ table = "" /\ clear_table = FALSE
        /\ cursor = NoCursor /\ conn = [committed |-> FALSE]

\* the arguments of the date helpers, unused by the queue functions
NoDates == /\ grid_start = 0 /\ grid_end = 0
           /\ dt = 0 /\ date2 = 0 /\ periods = 0 /\ inclusive = TRUE

\* ---- reverse_backlog on arbitrary ascending flow series ----
\* reverse_backlog replaces a missing flow value by 0 before anything reads it,
\* so the flows hold missing values and no explicit 0
InitRB ==
    /\ op = "init"
    /\ NoIO
    /\ events = None
    /\ flow = None
    /\ now = 0
    /\ time_index = NoIndex
    /\ NoDates
    /\ pre = None
    /\ out = None
    /\ \E n \in 0..MaxPts : \E m \in 0..(MaxPts - n) :
          /\ inflows \in SeriesOfLen(n, (1..MaxVal) \cup {NaN})
          /\ outflows \in SeriesOfLen(m, (1..MaxVal) \cup {NaN})
    /\ backlog_start \in -1..MaxBacklog
    /\ date_start \in {Midnight(MaxDay) - 1, Midnight(MaxDay)}
    /\ freq \in Freqs

ReverseBacklog ==
    /\ op = "init"
    /\ op' = "reverse_backlog"
    /\ pre' = reverse_backlog_pre(inflows, outflows, backlog_start, date_start)
    /\ out' = reverse_backlog(inflows, outflows, backlog_start, date_start, freq)
    /\ UNCHANGED <<args, db>>

NextRB == ReverseBacklog

SpecRB == InitRB /\ [][NextRB]_vars

\* ---- flow_extract on event tables ----
RowLeq(a, b) == a.ts < b.ts \/ (a.ts = b.ts /\ a.w <= b.w)

\* the event tables with n rows; the result of flow_extract does not depend on
\* the order of the rows, so each table is listed once, rows in (ts, w) order
TablesOfLen(n) ==
    {df \in [1..n -> [ts : Stamps \cup {NaT}, w : (1..MaxWeight) \cup {NaN}]] :
        \A i \in 1..(n - 1) : RowLeq(df[i], df[i + 1])}

InitFE ==
    /\ op = "init"
    /\ NoIO
    /\ \E n \in 0..MaxEvents : events \in TablesOfLen(n)
    /\ flow \in BOOLEAN
    /\ freq \in Freqs
    /\ now \in {Midnight(1) + 1, Midnight(2) + 1, Midnight(MaxDay) + 1}
    /\ Stamped(events) # <<>> => now = Midnight(MaxDay) + 1
    /\ inflows = None
    /\ outflows = None
    /\ backlog_start = 0
    /\ date_start = 0
    /\ time_index = NoIndex
    /\ NoDates
    /\ pre = None
    /\ out = None

\* flow is the weight_column switch here
FlowExtract ==
    /\ op = "init"
    /\ op' = "flow_extract"
    /\ out' = flow_extract(events, flow, freq, now)
    /\ pre' = None
    /\ UNCHANGED <<args, db>>

NextFE == FlowExtract

SpecFE == InitFE /\ [][NextFE]_vars

\* ---- dates/scalar.py and dates/range.py ----
\* the result of a call: a value, or the exception it raises
Ok(v) == [ok |-> TRUE, v |-> v]

Err(e) == [ok |-> FALSE, error |-> e]

\* str.lower() on the frequency codes
Lower(c) == CASE c = "W" -> "w" [] c = "M" -> "m" [] c = "Q" -> "q"
              [] c = "Y" -> "y" [] OTHER -> c

strip_time(ts) == Midnight(DayOf(ts))

\* the first month of the quarter of month m
QuarterStart(m) == 3 * ((m - 1) \div 3) + 1

\* offset.rollback(dt) for the offsets of _offset_begin_map, as a day number:
\* the day itself when it is on the offset, else the last offset day before it
RollbackDay(day, f) ==
    LET c == Civil(day)
    IN CASE f = "w" -> day - Weekday(day)
         [] f = "m" -> DayNumber(c.y, c.m, 1)
         [] f = "q" -> DayNumber(c.y, QuarterStart(c.m), 1)
         [] f = "y" -> DayNumber(c.y, 1, 1)

\* offset.rollforward(dt) for the offsets of _offset_end_map: the day itself
\* when it is on the offset, else the next offset day
RollforwardDay(day, f) ==
    LET c  == Civil(day)
        qe == QuarterStart(c.m) + 2
    IN CASE f = "w" -> day + ((7 - Weekday(day)) % 7)
         [] f = "m" -> DayNumber(c.y, c.m, DaysInMonth(c.y, c.m))
         [] f = "q" -> DayNumber(c.y, qe, DaysInMonth(c.y, qe))
         [] f = "y" -> DayNumber(c.y, 12, 31)

first_of(d, code) ==
    IF Lower(code) \notin {"w", "m", "q", "y"} THEN Err("ValueError")
    ELSE Ok(Midnight(RollbackDay(DayOf(d), Lower(code))))

end_of(d, code) ==
    IF Lower(code) \notin {"w", "m", "q", "y"} THEN Err("ValueError")
    ELSE Ok(Midnight(RollforwardDay(DayOf(d), Lower(code))))

\* prorate: the ratio [n, d] of (numerator.days + 1) to len(days)
prorate(d, code) ==
    LET first == first_of(d, code)
        last  == end_of(d, code)
    IN IF ~first.ok THEN first
       ELSE IF ~last.ok THEN last
       ELSE Ok([n |-> DayOf(d) - DayOf(first.v) + 1,
                d |-> DayOf(last.v) - DayOf(first.v) + 1])

\* dt + relativedelta(months=n): the day is clipped to the length of the month
AddMonths(ts, n) ==
    Let(Civil(DayOf(ts)), LAMBDA c :
    Let(12 * c.y + (c.m - 1) + n, LAMBDA total :
    Let([y |-> total \div 12, m |-> (total % 12) + 1], LAMBDA ym :
        Midnight(DayNumber(ym.y, ym.m, Min({c.d, DaysInMonth(ym.y, ym.m)})))
            + (ts % TicksPerDay))))

\* dt + relativedelta(**{name: n}) for the names days, weeks, months, years
AddPeriods(ts, f, n) ==
    CASE f = "d" -> ts + n * TicksPerDay
      [] f = "w" -> ts + 7 * n * TicksPerDay
      [] f = "m" -> AddMonths(ts, n)
      [] f = "y" -> AddMonths(ts, 12 * n)

\* integer quotient rounded toward zero, as relativedelta normalises its fields
Trunc(a, b) == Sign(a) * ((Sign(a) * a) \div b)

\* relativedelta(dt1, dt2): whole months between the two, then the rest
relativedelta(dt1, dt2) ==
    Let(Civil(DayOf(dt1)), LAMBDA c1 :
    Let(Civil(DayOf(dt2)), LAMBDA c2 :
    Let(12 * (c1.y - c2.y) + (c1.m - c2.m), LAMBDA m0 :
    Let(AddMonths(dt2, m0), LAMBDA dtm :
    Let(IF dt1 < dt2 THEN (IF dt1 > dtm THEN m0 + 1 ELSE m0)
                     ELSE (IF dt1 < dtm THEN m0 - 1 ELSE m0), LAMBDA months :
    Let(dt1 - AddMonths(dt2, months), LAMBDA rest :
        [years  |-> Trunc(months, 12),
         months |-> months - 12 * Trunc(months, 12),
         days   |-> Trunc(rest, TicksPerDay)]))))))

\* date_diff: an integer, or for 'w' the ratio [n, d] of a day count to 7
date_diff(dt1, dt2, code) ==
    Let(relativedelta(dt1, dt2), LAMBDA diff :
    Let(dt1 - Weekday(DayOf(dt1)) * TicksPerDay, LAMBDA monday1 :
    Let(dt2 - Weekday(DayOf(dt2)) * TicksPerDay, LAMBDA monday2 :
        CASE code = "d" -> Ok(diff.days)
          [] code = "m" -> Ok((Civil(DayOf(dt1)).m + 12 * Civil(DayOf(dt1)).y)
                              - (Civil(DayOf(dt2)).m + 12 * Civil(DayOf(dt2)).y))
          [] code = "w" -> Ok([n |-> (monday1 - monday2) \div TicksPerDay, d |-> 7])
          [] code \in {"a", "y"} -> Ok(diff.years)
          [] OTHER -> Err("ValueError"))))

\* date_add: FREQUENCY_MAP[freq] raises KeyError, relativedelta(quarters=...)
\* raises TypeError
date_add(n, code, anchor_date) ==
    IF code \notin {"d", "w", "m", "q", "y"} THEN Err("KeyError")
    ELSE IF code = "q" THEN Err("TypeError")
    ELSE Ok(AddPeriods(anchor_date, code, n))

\* swing_range: freq_map[freq] raises KeyError; the code 'y' passes freq_map,
\* relativedelta and end_of / first_of, and fails in pd.date_range, which
\* knows no frequency alias 'Y' (the year-end alias is 'A')
swing_range(n, anchor_date, code, incl) ==
    IF code \notin {"d", "w", "m", "y"} THEN Err("KeyError")
    ELSE
      Let(IF n > 0 THEN 1 ELSE -1, LAMBDA shift :
      Let(IF incl THEN anchor_date ELSE AddPeriods(anchor_date, code, shift),
          LAMBDA anchor1 :
      Let(AddPeriods(anchor1, code, n), LAMBDA swing1 :
      Let(Min({anchor1, swing1}), LAMBDA anchor2 :
      Let(Max({anchor1, swing1}), LAMBDA swing2 :
      Let(IF code = "d" THEN swing2
          ELSE IF n >= 0 THEN end_of(swing2, code).v
          ELSE first_of(swing2, code).v, LAMBDA swing3 :
          IF code = "y" THEN Err("ValueError")
          ELSE Ok(date_range(anchor2, swing3, code))))))))

\* a call that returns result (or the exception it raises)
Finish(name, result) ==
    /\ op = "init"
    /\ op' = name
    /\ out' = result
    /\ pre' = None
    /\ UNCHANGED <<args, db>>

\* ---- the time grid of flow_extract, queues and _cumsum ----
\* days around a week end, a month end and a year end, and the ends that follow
GridDays == (0..MaxDay) \cup {8, 9, 33, 34, 367, 368}

GridStamps == {Midnight(d) + k : d \in GridDays, k \in 0..(TicksPerDay - 1)}

InitGrid ==
    /\ op = "init"
    /\ NoIO
    /\ events = None
    /\ inflows = None
    /\ outflows = None
    /\ flow = None
    /\ now = 0
    /\ backlog_start = 0
    /\ date_start = 0
    /\ time_index = NoIndex
    /\ grid_start \in GridStamps
    /\ grid_end \in {t \in GridStamps : grid_start <= t}
    /\ freq \in Freqs
    /\ freq = "d" => DayOf(grid_end) - DayOf(grid_start) < MaxGridLen
    /\ dt = 0 /\ date2 = 0 /\ periods = 0 /\ inclusive = TRUE
    /\ pre = None
    /\ out = None

\* pd.date_range(start_date, end_date, normalize=True, freq=freq)
DateRange ==
    /\ op = "init"
    /\ op' = "date_range"
    /\ out' = date_range(grid_start, grid_end, freq)
    /\ pre' = None
    /\ UNCHANGED <<args, db>>

NextGrid == DateRange

SpecGrid == InitGrid /\ [][NextGrid]_vars

\* ---- the date helpers ----
\* frequency codes: the documented ones, an upper-case one and an unknown one
Codes == {"d", "w", "m", "q", "a", "y", "W", "x"}

\* a week around the end of 2018, and ends of months, quarters and leap years
DateDays == (0..(MaxDay + 5)) \cup {33, 61, 92, 93, 427, 733}

DateStamps == {Midnight(d) + k : d \in DateDays, k \in 0..(TicksPerDay - 1)}

InitD ==
    /\ op = "init"
    /\ NoIO
    /\ events = None
    /\ inflows = None
    /\ outflows = None
    /\ flow = None
    /\ now = 0
    /\ backlog_start = 0
    /\ date_start = 0
    /\ time_index = NoIndex
    /\ grid_start = 0 /\ grid_end = 0
    /\ dt \in DateStamps
    /\ date2 \in {Midnight(1), Midnight(34) + 1, Midnight(400)}
    /\ freq \in Codes
    /\ periods \in -MaxPeriods..MaxPeriods
    /\ inclusive \in BOOLEAN
    /\ pre = None
    /\ out = None

FirstOf == Finish("first_of", first_of(dt, freq))

EndOf == Finish("end_of", end_of(dt, freq))

Prorate == Finish("prorate", prorate(dt, freq))

DateDiff == Finish("date_diff", date_diff(dt, date2, freq))

DateAdd == Finish("date_add", date_add(periods, freq, dt))

SwingRange == Finish("swing_range", swing_range(periods, dt, freq, inclusive))

NextD == FirstOf \/ EndOf \/ Prorate \/ DateDiff \/ DateAdd \/ SwingRange

SpecD == InitD /\ [][NextD]_vars

\* ---- io/sql.py ----
\* the values of column j of the fetched rows
Column(rows, j) == [i \in 1..Len(rows) |-> rows[i][j]]

\* coerce_dtypes on one column: the dtype it ends with, or the exception of
\* the cast. "int" is the platform integer (int32 or int64). astype(int) of
\* numbers with a NULL among them raises the ValueError that the code catches
\* (the column is cast to float); astype(int) of a column holding nothing but
\* NULLs, an object column, raises a TypeError that the code does not catch
CoercedDtype(type, cells) ==
    CASE type \in {"datetime", "date"} -> Ok("<M8[ns]")
      [] type = "bool" -> Ok("bool")
      [] type = "int" -> IF NaN \notin Range(cells) THEN Ok("int")
                         ELSE IF Range(cells) = {NaN} THEN Err("TypeError")
                         ELSE Ok("float64")
      [] type \in {"float", "Decimal"} -> Ok("float64")
      [] OTHER -> Ok("O")

\* bool(params): None, an empty list, an empty string and 0 are false
Truthy(ps) ==
    CASE ps.kind = "none" -> FALSE
      [] ps.kind = "list" -> ps.values # <<>>
      [] ps.kind = "scalar" -> ps.values[1] # ""
      [] ps.kind = "number" -> ps.values[1] # 0

\* cursor.execute(sql, params) or cursor.execute(sql)
Execute(statement, ps) ==
    IF Truthy(ps)
    THEN [sql |-> statement, with_params |-> TRUE, params |-> ps.values]
    ELSE [sql |-> statement, with_params |-> FALSE, params |-> <<>>]

HasDuplicates(columns) ==
    \E i, j \in 1..Len(columns) : i # j /\ columns[i] = columns[j]

\* the cell a cast leaves: np.bool_ turns a NULL into False and any other
\* value here into True, the other casts keep a NULL missing
CoercedCell(type, cell) == IF type = "bool" THEN cell # NaN ELSE cell

\* the frame built from the rows and coerced column by column, or the
\* exception of the first cast that fails; without columns from_records
\* builds an empty frame whatever was fetched
Coerced(cur, columns) ==
    Let([j \in 1..Len(columns) |->
            CoercedDtype(cur.description[j].type, Column(cur.rows, j))],
        LAMBDA casts :
            IF \E j \in 1..Len(casts) : ~casts[j].ok
            THEN Err("TypeError")
            ELSE Ok([columns |-> columns,
                     dtypes  |-> [j \in 1..Len(casts) |-> casts[j].v],
                     rows    |-> IF columns = <<>> THEN <<>>
                                 ELSE [i \in 1..Len(cur.rows) |->
                                         [j \in 1..Len(columns) |->
                                            CoercedCell(cur.description[j].type,
                                                        cur.rows[i][j])]]]))

\* the value read_frame returns, or the exception it raises
read_frame_no_assert(cur) ==
    Let([j \in 1..Len(cur.description) |-> cur.description[j].name], LAMBDA columns :
        Coerced(cur, columns))

read_frame(cur) ==
    Let([j \in 1..Len(cur.description) |-> cur.description[j].name], LAMBDA columns :
        IF HasDuplicates(columns) THEN Err("AssertionError")
        ELSE Coerced(cur, columns))

\* the types a cursor's description names
Types == {"int", "float", "str", "date", "datetime", "bool", "Decimal"}

\* ---- write_frame; a SQL text is the sequence of the pieces it is built of ----
\* the characters str.strip() removes: space, tab, newline, carriage return,
\* form feed, and, written by their Python escapes, vertical tab, the
\* separators 0x1c-0x1f and the Unicode spaces
Whitespace == {" ", "\t", "\n", "\r", "\f", "\\x0b",
               "\\x1c", "\\x1d", "\\x1e", "\\x1f", "\\x85", "\\xa0",
               "\\u1680", "\\u2000", "\\u2001", "\\u2002", "\\u2003", "\\u2004",
               "\\u2005", "\\u2006", "\\u2007", "\\u2008", "\\u2009", "\\u200a",
               "\\u2028", "\\u2029", "\\u202f", "\\u205f", "\\u3000"}

\* col.replace(' ', '_') on a name given as its characters
Replace(name) == [i \in 1..Len(name) |-> IF name[i] = " " THEN "_" ELSE name[i]]

RECURSIVE LStrip(_)
LStrip(name) == IF name # <<>> /\ Head(name) \in Whitespace THEN LStrip(Tail(name))
                ELSE name

Strip(name) == Reverse(LStrip(Reverse(LStrip(name))))

SafeColumn(col) == <<"[">> \o Strip(Replace(col)) \o <<"]">>

\* sep.join(parts)
RECURSIVE Join(_, _)
Join(parts, sep) ==
    IF parts = <<>> THEN <<>>
    ELSE IF Len(parts) = 1 THEN parts[1]
    ELSE parts[1] \o <<sep>> \o Join(Tail(parts), sep)

TruncateQuery(t) == <<"TRUNCATE TABLE [", t, "]">>

InsertQuery(fr, t) ==
    <<"INSERT INTO ", t, " (">>
      \o Join([j \in 1..Len(fr.columns) |-> SafeColumn(fr.columns[j])], ",")
      \o <<") VALUES (">>
      \o Join([j \in 1..Len(fr.columns) |-> <<"?">>], ",")
      \o <<")">>

\* the parameters of one INSERT: a missing value is handed over as None
InsertRow(x) == [j \in 1..Len(x) |-> IF x[j] = NaN THEN PyNone ELSE x[j]]

\* the calls of cursor.execute that write_frame makes, in order
write_frame(fr, t, clear) ==
    (IF clear THEN <<[sql |-> TruncateQuery(t), with_params |-> FALSE, params |-> <<>>]>>
     ELSE <<>>)
    \o [i \in 1..Len(fr.rows) |->
           [sql |-> InsertQuery(fr, t), with_params |-> TRUE,
            params |-> InsertRow(fr.rows[i])]]

Descriptions(n) == [1..n -> [name : {"A", "B"}, type : Types]]

ResultSets(n) == UNION {[1..k -> [1..n -> {1, NaN}]] : k \in 0..MaxRows}

\* column names with a blank inside, at the ends, with a leading tab, and with
\* a trailing newline and vertical tab
Names == {<<"a">>, <<"a", " ", "b">>, <<" ", "c", " ">>, <<"\t", "c">>,
          <<"d", "\\x0b", "\n">>}

DataFrames(n) ==
    {[columns |-> c, rows |-> r] : c \in [1..n -> Names], r \in ResultSets(n)}

NoFrame == [columns |-> <<>>, rows |-> <<>>]

InitSQL ==
    /\ op = "init"
    /\ events = None
    /\ inflows = None
    /\ outflows = None
    /\ flow = None
    /\ freq = "d"
    /\ now = 0
    /\ backlog_start = 0
    /\ date_start = 0
    /\ time_index = NoIndex
    /\ NoDates
    /\ split_date = 0
    /\ conn = [committed |-> FALSE]
    /\ \/ /\ sql \in {"select top 10", "select * from t where office = ?"}
          /\ params \in {NoParams, List(<<>>), Scalar(""), Number(0), Number(1),
                        Scalar("office"), List(<<"office">>)}
          /\ \E n \in 0..MaxCols :
                \E d \in Descriptions(n), r \in ResultSets(n) :
                   cursor = [description |-> d, rows |-> r,
                             executed |-> <<>>, closed |-> FALSE]
          /\ frame = NoFrame /\ table = "" /\ clear_table = FALSE
       \/ /\ sql = "" /\ params = NoParams
          /\ cursor = NoCursor
          /\ \E n \in 0..MaxCols : frame \in DataFrames(n)
          /\ table \in {"t"}
          /\ clear_table \in BOOLEAN
    /\ pre = None
    /\ out = None

\* the cursor is closed and the connection committed only after the assertion
ReadFrame ==
    /\ op = "init"
    /\ op' = "read_frame"
    /\ out' = read_frame(cursor)
    /\ cursor' = [cursor EXCEPT !.executed = <<Execute(sql, params)>>,
                                !.closed = out' # Err("AssertionError")]
    /\ conn' = [committed |-> out' # Err("AssertionError")]
    /\ pre' = None
    /\ UNCHANGED args

\* every execute succeeds: the cursor is closed and the connection committed
WriteFrame ==
    /\ op = "init"
    /\ op' = "write_frame"
    /\ cursor' = [cursor EXCEPT !.executed = write_frame(frame, table, clear_table),
                                !.closed = TRUE]
    /\ conn' = [committed |-> TRUE]
    /\ out' = None
    /\ pre' = None
    /\ UNCHANGED args

\* an execute fails: the handler names pyodbc.Error, pyodbc is not imported in
\* the module, and the NameError leaves the cursor open and nothing committed
WriteFrameRaises ==
    /\ op = "init"
    /\ \E k \in 1..Len(write_frame(frame, table, clear_table)) :
          cursor' = [cursor EXCEPT !.executed =
                        SubSeq(write_frame(frame, table, clear_table), 1, k)]
    /\ op' = "write_frame raises"
    /\ out' = Err("NameError")
    /\ pre' = None
    /\ UNCHANGED <<args, conn>>

NextSQL == ReadFrame \/ WriteFrame \/ WriteFrameRaises

SpecSQL == InitSQL /\ [][NextSQL]_vars

\* ---- tseries.py ----
\* split_date=None stands for datetime.now()
split_tseries(fr, sd, nw) ==
    Let(strip_time(IF sd = NaT THEN nw ELSE sd), LAMBDA split_date1 :
    Let(sort_index(fr, TRUE), LAMBDA split_frame :
        [past   |-> SliceTo(split_frame, split_date1),
         future |-> SliceFrom(split_frame, split_date1)]))

\* a frame in any index order whose rows carry their position as payload
FramesOfLen(n) == {[i \in 1..n |-> [t |-> ts[i], v |-> i]] : ts \in [1..n -> Stamps]}

InitTS ==
    /\ op = "init"
    /\ events = None
    /\ inflows = None
    /\ outflows = None
    /\ flow = None
    /\ freq = "d"
    /\ now \in {Midnight(1) + 1, Midnight(MaxDay)}
    /\ backlog_start = 0
    /\ date_start = 0
    /\ time_index = NoIndex
    /\ NoDates
    /\ \E n \in 0..MaxPts : frame \in FramesOfLen(n)
    /\ split_date \in {NaT} \cup {Midnight(d) + k : d \in {1, 2}, k \in {0, 1}}
    /\ sql = "" /\ params = NoParams
    /\ table = "" /\ clear_table = FALSE
    /\ cursor = NoCursor /\ conn = [committed |-> FALSE]
    /\ pre = None
    /\ out = None

SplitTseries == Finish("split_tseries", split_tseries(frame, split_date, now))

NextTS == SplitTseries

SpecTS == InitTS /\ [][NextTS]_vars

\* ---- queues on two event tables ----
\* event tables without weights: every row weighs 1
CountTablesOfLen(n) == {df \in TablesOfLen(n) : \A i \in 1..n : df[i].w = 1}

InitQS ==
    /\ op = "init"
    /\ NoIO
    /\ events = None
    /\ flow = FALSE
    /\ date_start = 0
    /\ NoDates
    /\ pre = None
    /\ out = None
    /\ \E n \in 0..MaxEvents : \E m \in 0..(MaxEvents - n) :
          /\ inflows \in CountTablesOfLen(n)
          /\ outflows \in CountTablesOfLen(m)
    /\ backlog_start \in {0, MaxBacklog}
    /\ freq \in Freqs
    /\ now \in {Midnight(MaxDay - 1) + 1, Midnight(MaxDay + 1)}
    /\ time_index \in {NoIndex, Given(date_range(Midnight(0), Midnight(MaxDay), freq))}

\* inflows and outflows are the two event tables, backlog_start is
\* current_backlog
Queues ==
    /\ op = "init"
    /\ \/ time_index.given
       \/ /\ Len(flow_extract(inflows, flow, freq, now)) > 0
          /\ Len(flow_extract(outflows, flow, freq, now)) > 0
    /\ op' = "queues"
    /\ out' = queues(inflows, outflows, backlog_start, time_index, flow, freq, now)
    /\ pre' = None
    /\ UNCHANGED <<args, db>>

\* inflow.index.min() of an empty Series raises
QueuesRaises ==
    /\ op = "init"
    /\ ~time_index.given
    /\ \/ Len(flow_extract(inflows, flow, freq, now)) = 0
       \/ Len(flow_extract(outflows, flow, freq, now)) = 0
    /\ op' = "queues raises"
    /\ out' = None
    /\ pre' = None
    /\ UNCHANGED <<args, db>>

NextQS == Queues \/ QueuesRaises

SpecQS == InitQS /\ [][NextQS]_vars

\* ---- the metrics layer on pairs of flow series ----
InitQ ==
    /\ op = "init"
    /\ NoIO
    /\ events = None
    /\ flow = None
    /\ backlog_start = 0
    /\ date_start = 0
    /\ time_index = NoIndex
    /\ NoDates
    /\ pre = None
    /\ out = None
    /\ \E n \in 0..MaxPts : \E m \in 0..(MaxPts - n) :
          /\ inflows \in SeriesOfLen(n, 0..MaxVal)
          /\ outflows \in SeriesOfLen(m, 0..MaxVal)
    /\ now \in {Midnight(MaxDay - 1) + 1, Midnight(MaxDay + 1)}
    /\ \A s \in {inflows, outflows} : Len(s) > 0 => s[1].t <= now
    /\ freq \in Freqs

\* flow.index.min() of an empty Series raises
Raise(name) == Finish(name, None)

Cumsum == Len(inflows) > 0 /\ Finish("_cumsum", _cumsum(inflows, now))

CumsumRaises == Len(inflows) = 0 /\ Raise("_cumsum raises")

Backlog == /\ Len(inflows) > 0 /\ Len(outflows) > 0
           /\ Finish("backlog", backlog(inflows, outflows, freq, now))

BacklogRaises == (Len(inflows) = 0 \/ Len(outflows) = 0) /\ Raise("backlog raises")

Throughput == Len(outflows) > 0 /\ Finish("throughput", throughput(outflows, freq, now))

ThroughputRaises == Len(outflows) = 0 /\ Raise("throughput raises")

Arrivals == Len(inflows) > 0 /\ Finish("arrivals", arrivals(inflows, freq, now))

ArrivalsRaises == Len(inflows) = 0 /\ Raise("arrivals raises")

Wait == /\ Len(inflows) > 0 /\ Len(outflows) > 0
        /\ Finish("wait", wait(inflows, outflows, freq, now))

WaitRaises == (Len(inflows) = 0 \/ Len(outflows) = 0) /\ Raise("wait raises")

NextQ == \/ Cumsum \/ CumsumRaises
         \/ Backlog \/ BacklogRaises
         \/ Throughput \/ ThroughputRaises
         \/ Arrivals \/ ArrivalsRaises
         \/ Wait \/ WaitRaises

SpecQ == InitQ /\ [][NextQ]_vars

\* ---- quantities the claims are stated in ----

\* total of the flow values dated t or earlier
FlowThrough(fl, t) == SumNonNaN(Values(SelectSeq(fl, LAMBDA r : r.t <= t)))

Total(s) == SumNonNaN(Values(s))

\* the days from the day of stamp a through the day of stamp b, as midnights
DailyGrid(a, b) ==
    [i \in 1..(DayOf(b) - DayOf(a) + 1) |-> Midnight(DayOf(a) + i - 1)]

Nows == {Midnight(MaxDay - 1) + 1, Midnight(MaxDay + 1)}

\* ---- C1 ----
\* C1: every non-missing value of the series reverse_backlog returns is >= 0.
C1_NonNegative ==
    op = "reverse_backlog" =>
        \A i \in 1..Len(out) : out[i].v # NaN => out[i].v >= 0

\* a negative reconstructed value was reported as 0
C1_Witness ==
    /\ op = "reverse_backlog"
    /\ backlog_start >= 0
    /\ \E i \in 1..Len(out) :
          /\ out[i].v = 0
          /\ resample(pre, freq, "first")[i].v # NaN
          /\ resample(pre, freq, "first")[i].v < 0

\* ---- C2 ----
\* C2: when both flow series contain the date date_start and backlog_start >= 0,
\* the value computed for date_start before resampling and clamping is
\* backlog_start, whatever the flows recorded on date_start are.
C2_AnchorIsBacklogStart ==
    (/\ op = "reverse_backlog"
     /\ backlog_start >= 0
     /\ date_start \in IndexSet(inflows) \cap IndexSet(outflows))
    => ValueAt(pre, date_start) = backlog_start

\* ---- C3 ----
EventsIn(df, weighted, f, t) ==
    SelectSeq(FlowRows(df, weighted), LAMBDA r : Label(r.t, f) = t)

\* C3: the series flow_extract returns lives on exactly the grid built over
\* [min(timestamp), max(timestamp)] at freq; its value at a grid period is the
\* number of events stamped in that period (with a weight column, the sum of
\* the weights of the rows having both fields), and never a missing value.
C3_FlowOnGrid ==
    (op = "flow_extract" /\ Stamped(events) # <<>>) =>
        /\ Index(out) = date_range(ColMin(events), ColMax(events), freq)
        /\ \A i \in 1..Len(out) :
              /\ out[i].v # NaN
              /\ out[i].v = IF flow
                            THEN Total(EventsIn(events, TRUE, freq, out[i].t))
                            ELSE Len(EventsIn(events, FALSE, freq, out[i].t))

\* a weighted extraction where a row lacks its weight, one grid day has no
\* event and another carries weight
C3_Witness ==
    /\ op = "flow_extract"
    /\ flow
    /\ \E k \in 1..Len(events) : events[k].ts # NaT /\ events[k].w = NaN
    /\ \E i \in 1..Len(out) : out[i].v = 0 /\ EventsIn(events, TRUE, freq, out[i].t) = <<>>
    /\ \E i \in 1..Len(out) : out[i].v > 0

\* ---- C4 ----
\* C4: _cumsum returns a series on the daily grid from the flow's earliest date
\* through now whose value at day t is the sum of the flow values dated <= t;
\* the values do not depend on now, and a day after the flow's last date
\* carries the flow's total.
C4_CumulativeSum ==
    op = "_cumsum" =>
        /\ Index(out) = DailyGrid(inflows[1].t, now)
        /\ \A i \in 1..Len(out) :
              /\ out[i].v = FlowThrough(inflows, out[i].t)
              /\ out[i].t > inflows[Len(inflows)].t => out[i].v = Total(inflows)
        /\ \A nw \in Nows :
              LET other == _cumsum(inflows, nw)
              IN \A i \in 1..Len(out) : \A j \in 1..Len(other) :
                    other[j].t = out[i].t => other[j].v = out[i].v

\* a flow with a gap, extended past its last date
C4_Witness ==
    /\ op = "_cumsum"
    /\ Len(inflows) >= 2
    /\ Len(out) > DayOf(inflows[Len(inflows)].t) - DayOf(inflows[1].t) + 1
    /\ \E i \in 1..Len(out) : out[i].t < inflows[Len(inflows)].t
                              /\ out[i].t \notin IndexSet(inflows)
    /\ out[Len(out)].v = Total(inflows)
    /\ Total(inflows) >= 2

\* ---- C5 ----
\* C5: for a flow whose values are all >= 0 the output of _cumsum is
\* non-decreasing in date order.
C5_NonDecreasing ==
    (op = "_cumsum" /\ \A k \in 1..Len(inflows) : inflows[k].v >= 0) =>
        \A i \in 1..(Len(out) - 1) :
            out[i].t < out[i + 1].t /\ out[i].v <= out[i + 1].v

\* the cumulative series rises and then stays level
C5_Witness ==
    /\ op = "_cumsum"
    /\ \E i \in 1..(Len(out) - 1) : out[i].v < out[i + 1].v
    /\ \E i \in 1..(Len(out) - 1) : out[i].v = out[i + 1].v /\ out[i].v > 0

\* ---- C6 ----
\* C6: the values of throughput(outflows, freq) add up to the final value of
\* _cumsum(outflows), those of arrivals(inflows, freq) to the final value of
\* _cumsum(inflows); the first difference is taken against 0.
C6_RoundTrip ==
    /\ op = "throughput" =>
          LET c == _cumsum(outflows, now)
          IN /\ Total(out) = c[Len(c)].v
             /\ Total(out) = FlowThrough(outflows, now)
             /\ freq = "d" => out[1].v = outflows[1].v
    /\ op = "arrivals" =>
          LET c == _cumsum(inflows, now)
          IN /\ Total(out) = c[Len(c)].v
             /\ Total(out) = FlowThrough(inflows, now)
             /\ freq = "d" => out[1].v = inflows[1].v

\* a weekly throughput over two periods whose first day carries flow
C6_Witness ==
    /\ op = "throughput"
    /\ freq = "w"
    /\ Len(out) >= 2
    /\ outflows[1].v > 0
    /\ Total(out) >= 2

\* ---- C7 ----
OnePerDay(fl) ==
    /\ Len(fl) > 0
    /\ \A i \in 1..Len(fl) : fl[i].v = 1 /\ fl[i].t = fl[1].t + Midnight(i - 1)

NoFlow(fl) == \A i \in 1..Len(fl) : fl[i].v = 0

C7_Balance ==
    (op = "backlog" /\ freq = "d") =>
        \A i \in 1..Len(out) :
            out[i].v = FlowThrough(inflows, out[i].t) - FlowThrough(outflows, out[i].t)

\* C7: backlog(inflows, outflows, 'd') at each reported date t is the inflow
\* through t minus the outflow through t; with one inflow per day on n
\* consecutive days and no outflow the reported sequence is exactly 1, ..., n.
C7_BalanceAndRamp ==
    /\ C7_Balance
    /\ (/\ op = "backlog" /\ freq = "d"
        /\ OnePerDay(inflows) /\ NoFlow(outflows)
        /\ outflows[1].t >= inflows[1].t)
       => Values(out) = [i \in 1..Len(inflows) |-> i]

\* ---- C8 ----
\* C8: backlog reports no date outside the span observed in its inputs: every
\* output date lies between the earliest and the latest date of the original
\* inflow and outflow series.
C8_WithinObservedSpan ==
    op = "backlog" =>
        \A i \in 1..Len(out) :
            /\ out[i].t >= Min(IndexSet(inflows) \cup IndexSet(outflows))
            /\ out[i].t <= Max(IndexSet(inflows) \cup IndexSet(outflows))

\* ---- C9 ----
\* C9: a period in which arrivals are 0 has no entry in the output of wait.
C9_NoEntryWithoutArrivals ==
    op = "wait" =>
        LET k == arrivals(inflows, freq, now)
        IN \A i \in 1..Len(out) : Lookup(k, out[i].t, 0) # 0

\* ---- C10 ----
\* C10: when every period has the same arrivals lambda # 0 and the same backlog
\* L, wait returns exactly L / lambda for every period of its output.
C10_LittlesLaw ==
    op = "wait" =>
        LET k == arrivals(inflows, freq, now)
            L == backlog(inflows, outflows, freq, now)
        IN (/\ Len(k) > 0 /\ Len(L) > 0
            /\ k[1].v # 0
            /\ \A r \in Range(k) : r.v = k[1].v
            /\ \A r \in Range(L) : r.v = L[1].v)
           => \A i \in 1..Len(out) :
                 /\ out[i].v.kind = "num"
                 /\ out[i].v.n * k[1].v = L[1].v * out[i].v.d

\* two daily periods with one arrival each and a backlog of 1 throughout
C10_Witness ==
    /\ op = "wait"
    /\ Len(out) >= 2
    /\ \A r \in Range(arrivals(inflows, freq, now)) : r.v = 1
    /\ \A r \in Range(backlog(inflows, outflows, freq, now)) : r.v = 1
    /\ \A i \in 1..Len(out) : out[i].v.kind = "num" /\ out[i].v.n = out[i].v.d

\* the rows of the daily series s that fall in the period of f labelled t
InPeriod(s, f, t) == SelectSeq(s, LAMBDA r : Label(r.t, f) = t)

\* C11: for every period of wait's output, the numerator is the mean of the
\* daily backlog over all days of that period and the denominator is the
\* arrival rate of that period (its arrivals per period), so the reported wait
\* is their ratio, also when freq is coarser than daily.
C11_MeanOverPeriod ==
    op = "wait" =>
        LET Ld == backlog(inflows, outflows, "d", now)
            kd == arrivals(inflows, "d", now)
        IN \A i \in 1..Len(out) :
              LET Lp == InPeriod(Ld, freq, out[i].t)
                  kp == InPeriod(kd, freq, out[i].t)
              IN (out[i].v.kind = "num" /\ Len(Lp) > 0 /\ Len(kp) > 0 /\ Total(kp) # 0)
                 => out[i].v.n * Len(Lp) * Total(kp) = out[i].v.d * Total(Lp)

\* C12: for every call of queues, with a derived or a supplied time index, the
\* three returned series have the same date domain: inflow and outflow are
\* defined on exactly the time index and the backlog has a value for exactly
\* the same dates.
C12_SameDomain ==
    op = "queues" =>
        /\ Index(out.inflow) = Index(out.outflow)
        /\ time_index.given => Index(out.inflow) = time_index.index
        /\ Index(out.backlog) = Index(out.inflow)
        /\ \A r \in Range(out.backlog) : r.v # NaN

\* a flow of zeros on the dates of s
ZerosOn(s) == [i \in 1..Len(s) |-> [t |-> s[i].t, v |-> 0]]

\* C13: when inflows (or outflows) is empty, reverse_backlog treats its
\* cumulative contribution as 0 at every date: the result is the one obtained
\* from backlog_start and the non-empty flow alone, clamped at 0, no value at a
\* date of the non-empty flow is missing, and with both flows empty every
\* reported date maps to backlog_start.
C13_EmptyFlowIsZero ==
    op = "reverse_backlog" =>
        /\ (Len(inflows) = 0 /\ Len(outflows) > 0) =>
              /\ out = reverse_backlog(ZerosOn(outflows), outflows,
                                       backlog_start, date_start, freq)
              /\ \A r \in Range(out) :
                    (\E x \in Range(outflows) : Label(x.t, freq) = r.t) => r.v # NaN
        /\ (Len(outflows) = 0 /\ Len(inflows) > 0) =>
              /\ out = reverse_backlog(inflows, ZerosOn(inflows),
                                       backlog_start, date_start, freq)
              /\ \A r \in Range(out) :
                    (\E x \in Range(inflows) : Label(x.t, freq) = r.t) => r.v # NaN
        /\ (Len(inflows) = 0 /\ Len(outflows) = 0) =>
              \A r \in Range(out) : r.v = Max({0, backlog_start})

\* C14 (as stated): flow_extract applied to an event table with no rows, or
\* with no non-missing timestamp, returns an empty flow series, for every freq
\* and with or without a weight column.
C14_EmptyTableEmptyFlow ==
    (op = "flow_extract" /\ Stamped(events) = <<>>) => out = <<>>

\* C14 (amended): flow_extract applied to an event table with no non-missing
\* timestamp returns the flow on the grid built over [now, now]: one point,
\* today's midnight, with value 0 when today ends a period of freq (always for
\* 'd'), and an empty series otherwise, with or without a weight column.
C14_EmptyTableGridAtNow ==
    (op = "flow_extract" /\ Stamped(events) = <<>>) =>
        out = IF freq = "d" \/ PeriodEnd(DayOf(now), freq) = DayOf(now)
              THEN <<[t |-> Midnight(DayOf(now)), v |-> 0]>>
              ELSE <<>>

\* a weighted monthly extraction, on the last day of a month, of a table whose
\* only row has no timestamp
C14_Witness ==
    /\ op = "flow_extract"
    /\ flow
    /\ freq = "m"
    /\ Len(events) = 1
    /\ Stamped(events) = <<>>
    /\ out = <<[t |-> Midnight(DayOf(now)), v |-> 0]>>

\* day b ends the period that follows the period ended by day a
OnePeriodApart(a, b, f) ==
    CASE f = "d" -> b = a + 1
      [] f = "w" -> b = a + 7
      [] f = "m" -> 12 * Civil(b).y + Civil(b).m = 12 * Civil(a).y + Civil(a).m + 1
      [] f = "a" -> Civil(b).y = Civil(a).y + 1

\* the periods of f that the days from start's date to end's date fall in
PeriodsBetween(first, last, f) == {PeriodEnd(d, f) : d \in first..last}

\* C16: the time grid built over [start, end] at freq is strictly increasing,
\* its consecutive points are exactly one period apart, every point is at
\* midnight, and its length is the number of periods between start and end
\* inclusive; the daily grid is exactly the days from start's date to end's
\* date.
C16_GridShape ==
    op = "date_range" =>
        LET first == DayOf(grid_start)
            last  == DayOf(grid_end)
        IN /\ \A i \in 1..(Len(out) - 1) :
                 /\ out[i] < out[i + 1]
                 /\ OnePeriodApart(DayOf(out[i]), DayOf(out[i + 1]), freq)
           /\ \A i \in 1..Len(out) : out[i] % TicksPerDay = 0
           /\ Len(out) = Cardinality(PeriodsBetween(first, last, freq))
           /\ freq = "d" => /\ Len(out) = last - first + 1
                            /\ \A i \in 1..Len(out) : out[i] = Midnight(first + i - 1)

\* C15: each of first_of, end_of, prorate, date_diff, date_add and swing_range
\* accepts the frequency codes d, w, m, a and y, and fails with the
\* unsupported-frequency error (the ValueError of first_of) on any other code.
C15_FrequencyCodes ==
    op \in {"first_of", "end_of", "prorate", "date_diff", "date_add", "swing_range"} =>
        IF freq \in {"d", "w", "m", "a", "y"}
        THEN out.ok
        ELSE ~out.ok /\ out.error = "ValueError"

\* the Monday of the week of a day
MondayOf(day) == CHOOSE m \in (day - 6)..day : Weekday(m) = 0

\* C17: for every datetime dt, first_of(dt, 'w') is midnight of the Monday of
\* dt's week and end_of(dt, 'w') is midnight of the Monday of the next week,
\* exactly 7 days after first_of(dt, 'w').
C17_WeekBounds ==
    /\ (op = "first_of" /\ freq = "w") => out = Ok(Midnight(MondayOf(DayOf(dt))))
    /\ (op = "end_of" /\ freq = "w") =>
          /\ out = Ok(Midnight(MondayOf(DayOf(dt)) + 7))
          /\ out.v = first_of(dt, "w").v + 7 * TicksPerDay

\* C18: for every non-zero periods and anchor date, swing_range with freq 'd'
\* returns exactly |periods| consecutive days: starting at the anchor when
\* periods > 0 and inclusive, the day after the anchor when periods > 0 and not
\* inclusive, and ending at the anchor when periods < 0 and inclusive.
C18_DailySwing ==
    (op = "swing_range" /\ freq = "d" /\ periods # 0) =>
        /\ out.ok
        /\ Len(out.v) = (IF periods > 0 THEN periods ELSE -periods)
        /\ \A i \in 1..(Len(out.v) - 1) : out.v[i + 1] = out.v[i] + TicksPerDay
        /\ (periods > 0 /\ inclusive) => out.v[1] = strip_time(dt)
        /\ (periods > 0 /\ ~inclusive) => out.v[1] = strip_time(dt) + TicksPerDay
        /\ (periods < 0 /\ inclusive) => out.v[Len(out.v)] = strip_time(dt)

\* C19: swing_range with freq 'd' and periods = 0 fails with an AssertionError
\* instead of returning a date range.
C19_ZeroPeriodsRaises ==
    (op = "swing_range" /\ freq = "d" /\ periods = 0) =>
        ~out.ok /\ out.error = "AssertionError"

\* the position of a day in its period of w, m, q or y, and the length of that
\* period, both in days
DayInPeriod(day, f) ==
    LET c == Civil(day)
    IN CASE f = "w" -> Weekday(day) + 1
         [] f = "m" -> c.d
         [] f = "q" -> day - DayNumber(c.y, QuarterStart(c.m), 1) + 1
         [] f = "y" -> day - DayNumber(c.y, 1, 1) + 1

PeriodLength(day, f) ==
    LET c == Civil(day)
        q == QuarterStart(c.m)
    IN CASE f = "w" -> 7
         [] f = "m" -> DaysInMonth(c.y, c.m)
         [] f = "q" -> DaysInMonth(c.y, q) + DaysInMonth(c.y, q + 1)
                       + DaysInMonth(c.y, q + 2)
         [] f = "y" -> IF IsLeap(c.y) THEN 366 ELSE 365

\* C20: for every dt and every freq in {w, m, q, y}, prorate(dt, freq) is the
\* number of days from the first day of dt's period through dt, inclusive,
\* divided by the number of days of the period: above 0 on the first day,
\* exactly 1 on the last day, and always within (0, 1].
C20_Prorate ==
    (op = "prorate" /\ freq \in {"w", "m", "q", "y"}) =>
        /\ out.ok
        /\ out.v.d > 0
        /\ out.v.n * PeriodLength(DayOf(dt), freq)
              = DayInPeriod(DayOf(dt), freq) * out.v.d
        /\ 0 < out.v.n /\ out.v.n <= out.v.d

\* C21: read_frame fails with an AssertionError, and returns no frame, whenever
\* the cursor's description holds two columns with the same name, for every
\* SQL statement and with or without parameters.
C21_DuplicateColumnsRaise ==
    (op = "read_frame" /\ HasDuplicates([j \in 1..Len(cursor.description) |->
                                            cursor.description[j].name]))
        => out = Err("AssertionError")

\* a parameterised statement whose two columns are both named A, of different
\* types, with a fetched row
C21_Witness ==
    /\ op = "read_frame"
    /\ cursor.executed[1].with_params
    /\ Len(cursor.description) = 2
    /\ cursor.description[1].name = cursor.description[2].name
    /\ cursor.description[1].type # cursor.description[2].type
    /\ Len(cursor.rows) = 1
    /\ ~cursor.closed /\ ~conn.committed
    /\ out = Err("AssertionError")

\* the calendar day split_tseries splits on
SplitDay == DayOf(IF split_date = NaT THEN now ELSE split_date)

\* C22: split_tseries partitions the rows of the frame: every row is in exactly
\* one of the two parts, every row dated on split_date's calendar day (at any
\* time of that day) or earlier is in 'past', and 'future' holds exactly the
\* rows dated on later days.
C22_Partition ==
    op = "split_tseries" =>
        /\ \A r \in Range(frame) :
              /\ (r \in Range(out.past)) # (r \in Range(out.future))
              /\ DayOf(r.t) <= SplitDay => r \in Range(out.past)
        /\ Range(out.future) = {r \in Range(frame) : DayOf(r.t) > SplitDay}
        /\ Len(out.past) + Len(out.future) = Len(frame)

\* the flow recorded on the dates from t through date_start, missing counted as 0
FlowBetween(fl, t, D) == SumNonNaN(Values(SliceBetween(fl, t, D)))

\* C23: for every date t <= date_start present in both flow series, the value
\* reverse_backlog computes for t before resampling and clamping is
\* backlog_start minus the inflow recorded on the dates from t through
\* date_start plus the outflow recorded on the same dates, a missing flow value
\* counting as 0.
C23_ReverseBalance ==
    op = "reverse_backlog" =>
        \A t \in IndexSet(inflows) \cap IndexSet(outflows) :
            t <= date_start =>
                /\ t \in IndexSet(pre)
                /\ ValueAt(pre, t) = backlog_start
                                     - FlowBetween(inflows, t, date_start)
                                     + FlowBetween(outflows, t, date_start)

\* a date in both series with positive flow on it and after it, a later date
\* in one series only, and a value that differs from backlog_start
C23_Witness ==
    /\ op = "reverse_backlog"
    /\ \E t \in IndexSet(inflows) \cap IndexSet(outflows) :
          /\ t < date_start
          /\ ValueAt(inflows, t) = 1
          /\ \E u \in IndexSet(inflows) \ IndexSet(outflows) :
                t < u /\ u <= date_start /\ ValueAt(inflows, u) = 1
          /\ ValueAt(pre, t) = backlog_start - 2
                               + FlowBetween(outflows, t, date_start)

\* every flow series reverse_backlog is called with
FlowSeries == UNION {SeriesOfLen(n, (1..MaxVal) \cup {NaN}) : n \in 0..MaxPts}

AgreeUpTo(a, b, D) == SliceTo(a, D) = SliceTo(b, D)

\* C24: flow dated after date_start never influences reverse_backlog: a call
\* whose flow series agree with this one's on every date <= date_start, with
\* the same backlog_start, date_start and freq, returns the same series.
C24_LaterFlowIgnored ==
    op = "reverse_backlog" =>
        \A inflows2 \in {x \in FlowSeries : AgreeUpTo(x, inflows, date_start)} :
           \A outflows2 \in {x \in FlowSeries : AgreeUpTo(x, outflows, date_start)} :
              reverse_backlog(inflows2, outflows2, backlog_start, date_start, freq)
                  = out

\* a unit of inflow after date_start, flow on both sides before it
C24_Witness ==
    /\ op = "reverse_backlog"
    /\ \E r \in Range(inflows) : r.t > date_start /\ r.v = 1
    /\ \E r \in Range(inflows) : r.t <= date_start /\ r.v = 1
    /\ \E r \in Range(outflows) : r.t <= date_start
    /\ \E r \in Range(out) : r.v # NaN /\ r.v > 0

\* the dates of a flow series that reverse_backlog keeps
Kept(fl, D) == IndexSet(SliceTo(fl, D))

\* C25: a date present in only one of the two truncated series gets, by the
\* forward fill, the backlog value computed for the nearest later date present
\* in both series, so that no such date is left without a value.
C25_FilledFromLaterDate ==
    op = "reverse_backlog" =>
        \A t \in (Kept(inflows, date_start) \cup Kept(outflows, date_start))
                 \ (Kept(inflows, date_start) \cap Kept(outflows, date_start)) :
            /\ t \in IndexSet(pre)
            /\ ValueAt(pre, t) # NaN
            /\ \A u \in Kept(inflows, date_start) \cap Kept(outflows, date_start) :
                  (/\ u > t
                   /\ \A w \in Kept(inflows, date_start) \cap Kept(outflows, date_start) :
                         w > t => u <= w)
                  => ValueAt(pre, t) = ValueAt(pre, u)

\* C26: flow_extract conserves the events: for every table and every freq the
\* values of the returned series sum to the number of rows with a timestamp
\* (with a weight column, to the total weight of the rows having both fields);
\* no event is lost on the reindex, the last partial period included.
C26_Conservation ==
    op = "flow_extract" =>
        Total(out) = IF flow THEN Total(FlowRows(events, TRUE))
                     ELSE Len(Stamped(events))

\* C27: for daily flow series on a common grid ending at the evaluation day D,
\* with backlog_start equal to the unanchored balance at D and no value
\* clamped, reverse_backlog(inflows, outflows, backlog_start, D, 'd') and
\* backlog(inflows, outflows, 'd') report the same value at every grid date.
C27_AgreesWithBacklog ==
    (/\ op = "backlog" /\ freq = "d"
     /\ Index(inflows) = Index(outflows)
     /\ Index(inflows) = DailyGrid(inflows[1].t, now))
    => LET B == FlowThrough(inflows, now) - FlowThrough(outflows, now)
           unclamped == resample(reverse_backlog_pre(inflows, outflows, B, now),
                                 "d", "first")
           reversed == reverse_backlog(inflows, outflows, B, now, "d")
       IN (\A r \in Range(unclamped) : r.v # NaN /\ r.v >= 0)
          => \A t \in IndexSet(inflows) :
                /\ t \in IndexSet(reversed) \cap IndexSet(out)
                /\ ValueAt(reversed, t) = ValueAt(out, t)

====
